---- MODULE Spec2Model ----
(***************************************************************************)
(* Model of Client/AzureIoT/AzureIoT/main.c: a single-threaded Azure       *)
(* Sphere application.  One epoll loop dispatches two timer handlers (the  *)
(* button poll and the Azure connection tick); the IoT Hub client invokes  *)
(* two callbacks (connection status, device twin); a button press runs a   *)
(* blocking heart-rate / SpO2 acquisition and sends two telemetry items.   *)
(***************************************************************************)
EXTENDS Integers, Sequences, FiniteSets, TLC

(***************************************************************************)
(* Program constants                                                       *)
(***************************************************************************)
AzureIoTDefaultPollPeriodSeconds == 20

AzureIoTMinReconnectPeriodSeconds == 10

AzureIoTMaxReconnectPeriodSeconds == 10 * 60

run_time == 6

NprIdCapacity == 12

(***************************************************************************)
(* Bounds of the model                                                     *)
(***************************************************************************)
\* consecutive provisioning failures that are counted (the counter saturates)
MaxFailures == 8

\* successful button polls recorded in polled from program start
MaxPolls == 6

\* clients that are counted in liveClients (the counter saturates)
MaxClients == 3

\* longest nprId string a twin payload carries
MaxNprLen == 12

(***************************************************************************)
(* Input domains                                                           *)
(***************************************************************************)
Levels == {"High", "Low"}

\* seconds one window may take: BUFFER_SIZE samples at the sensor's rate
WindowSecs == {3, 6}

\* the same with a faster sample rate: three windows fit a run
ShortWindowSecs == {2}

\* results of rf_heart_rate_and_oxygen_saturation for one window: heart rate
\* in BPM, SpO2 in hundredths of a percent (98.50 and 97.25 and their sums are
\* exactly representable as float, so the float additions are exact), and the
\* two validity flags
WindowResults ==
    { [hr |-> 72, spo2 |-> 9850, hr_valid |-> TRUE,  spo2_valid |-> TRUE],
      [hr |-> 73, spo2 |-> 9725, hr_valid |-> TRUE,  spo2_valid |-> TRUE],
      [hr |-> 73, spo2 |-> 9850, hr_valid |-> FALSE, spo2_valid |-> TRUE],
      [hr |-> 72, spo2 |-> 9725, hr_valid |-> TRUE,  spo2_valid |-> FALSE],
      [hr |-> 72, spo2 |-> 9850, hr_valid |-> FALSE, spo2_valid |-> FALSE] }

\* IOTHUB_CLIENT_CONNECTION_STATUS values the transport can notify
ConnectionStatuses == {"AUTHENTICATED", "UNAUTHENTICATED"}

\* what a build can do on undefined behaviour that does not corrupt the state
UBOutcomes == {"continue", "crash"}

\* the string of n characters c
Str(n, c) == [i \in 1..n |-> c]

\* nprId values a desired payload carries
NprStrings ==
    { Str(1, "b"), Str(NprIdCapacity - 1, "a"), Str(MaxNprLen, "a") }

\* desired payloads: unparseable bytes, or a document in which StatusLED and
\* nprId are absent or objects whose "value" is of the right or a wrong type
NprValues ==
    { [kind |-> "absent", str |-> << >>], [kind |-> "notstring", str |-> << >>] }
    \cup { [kind |-> "string", str |-> s] : s \in NprStrings }

NoPayload ==
    [parses |-> FALSE, led |-> "absent", npr |-> [kind |-> "absent", str |-> << >>]]

\* payloads json_parse_string rejects: arbitrary bytes, or a document cut short
\* in which the text of a StatusLED property can still be read
Unparseable == { NoPayload, [NoPayload EXCEPT !.led = "true"] }

TwinPayloads ==
    Unparseable
    \cup [ parses : {TRUE},
           led : {"absent", "true", "false", "notbool"},
           npr : NprValues ]

\* the provisioning outcomes of the start-up scenario: two failures, a success
Scenario == << FALSE, FALSE, TRUE >>

VARIABLES
    pc,                        \* position of the single thread of control
    exitCode,                  \* status returned by main (read when pc = "exited")
    terminationRequired,       \* line 51
    iothubClientHandle,        \* line 60: "NULL", "live" or "dangling" (destroyed)
    liveClients,               \* history: clients created and not yet destroyed
    iothubAuthenticated,       \* line 62
    callbacksSet,              \* twin and status callbacks registered on the handle
    azureIoTPollPeriodSeconds, \* line 107
    azureTimerPeriod,          \* period programmed into azureTimerFd (0: not armed)
    epollFd,                   \* line 99: TRUE when it holds a descriptor (>= 0)
    buttonPollTimerFd,         \* line 97: TRUE when it holds a descriptor
    azureTimerFd,              \* line 98: TRUE when it holds a descriptor
    initFailure,               \* history: the resource initialisation failed to
                               \* acquire ("notrun" before, "none" if all acquired)
    sendTelemetryButtonState,  \* line 114
    statusLedOn,               \* line 89
    ledGpio,                   \* level driven on the status LED
    nprId,                     \* line 110: the stored identifier
    sensorOn,                  \* MAX30102 initialised and not shut down
    intVal,                    \* level of the sensor's interrupt line (intPinFd):
                               \* "Low" when a sample is ready
    elapsed,                   \* time_now.tv_sec - time_start.tv_sec of the run
                               \* (the locals of a run hold -1 outside a run)
    average_hr,                \* line 686: sum of valid heart rates of the run
    average_spo2,              \* line 687: sum of valid SpO2 values of the run
    nbr_readings,              \* line 688
    windows,                   \* history: window results of the current run
    lastOp,                    \* history: the handler step taken last
    calls,                     \* history: transport calls of the last handler
    telemetry,                 \* history: SendTelemetry invocations of the last handler
    consecFailures,            \* history: failed attempts since BackoffPeriod = Default
    tickLog,                   \* history: the ticks so far, while they follow
                               \* Scenario from program start
    onScenario,                \* history: the ticks so far follow Scenario
    recordPolls,               \* whether polled and triggers are recorded
    windowSecs,                \* seconds a window may take in this execution
    polled,                    \* history: the first MaxPolls polled levels
    triggers                   \* history: triggers fired within polled

vars == << pc, exitCode, terminationRequired, iothubClientHandle, liveClients,
           iothubAuthenticated, callbacksSet, azureIoTPollPeriodSeconds,
           azureTimerPeriod, epollFd, buttonPollTimerFd, azureTimerFd,
           initFailure, sendTelemetryButtonState, statusLedOn, ledGpio, nprId,
           sensorOn, intVal, elapsed, average_hr, average_spo2, nbr_readings, windows, lastOp,
           calls, telemetry, consecFailures, tickLog, onScenario,
           recordPolls, windowSecs, polled, triggers >>

connVars == << iothubClientHandle, liveClients, iothubAuthenticated, callbacksSet,
               azureIoTPollPeriodSeconds, azureTimerPeriod >>

fdVars == << epollFd, buttonPollTimerFd, azureTimerFd, initFailure >>

twinVars == << statusLedOn, ledGpio, nprId >>

acqVars == << sensorOn, intVal, elapsed, average_hr, average_spo2, nbr_readings,
             windows >>

tickHist == << consecFailures, tickLog, onScenario >>

pollHist == << recordPolls, windowSecs, polled, triggers >>

(***************************************************************************)
(* History records                                                         *)
(***************************************************************************)
NoOp ==
    [ op |-> "none",       \* handler or step
      consumed |-> FALSE,  \* ConsumeTimerFdEvent succeeded
      net |-> "na",        \* "ready", "notready", "error"
      setup |-> FALSE,     \* SetupAzureClient was invoked
      prov |-> "none",     \* "ok", "failed", "crash"
      before |-> 0,        \* azureIoTPollPeriodSeconds before the attempt
      dowork |-> 0,        \* invocations of IoTHubDeviceClient_LL_DoWork
      status |-> "na",     \* status notified to HubConnectionStatusCallback
      read |-> FALSE,      \* GPIO_GetValue of the button succeeded
      level |-> "na",      \* level read from the button
      old |-> "na",        \* last-observed level before the poll
      pressed |-> FALSE,   \* IsButtonPressed returned true
      v |-> 0,             \* windows of the run with both validity flags set
      payload |-> NoPayload, \* payload handed to TwinCallback
      again |-> FALSE ]    \* TwinCallback got the payload of the callback before

(***************************************************************************)
(* Initial state: the static initialisers, before main runs                *)
(***************************************************************************)
StaticInit ==
    /\ pc = "main"
    /\ exitCode = 0
    /\ terminationRequired = FALSE
    /\ iothubClientHandle = "NULL"
    /\ liveClients = 0
    /\ iothubAuthenticated = FALSE
    /\ callbacksSet = FALSE
    /\ azureIoTPollPeriodSeconds = -1
    /\ azureTimerPeriod = 0
    /\ epollFd = FALSE
    /\ buttonPollTimerFd = FALSE
    /\ azureTimerFd = FALSE
    /\ initFailure = "notrun"
    /\ sendTelemetryButtonState = "High"
    /\ statusLedOn = FALSE
    /\ ledGpio = "unset"
    /\ nprId = << >>
    /\ sensorOn = FALSE
    /\ intVal = "High"
    /\ elapsed = -1
    /\ average_hr = -1
    /\ average_spo2 = -1
    /\ nbr_readings = -1
    /\ windows = << >>
    /\ lastOp = NoOp
    /\ calls = << >>
    /\ telemetry = << >>
    /\ consecFailures = 0
    /\ tickLog = << >>
    /\ onScenario = TRUE
    /\ polled = << >>
    /\ triggers = 0

Init ==
    /\ StaticInit
    /\ recordPolls = FALSE
    /\ windowSecs = WindowSecs

(***************************************************************************)
(* main, initialisation, the main loop and teardown                        *)
(***************************************************************************)
InitFailures ==
    {"none", "epoll", "buttonA", "buttonB", "led", "buttonTimer", "azureTimer"}

\* main, lines 183-189: the scope id argument is required
Main(argc) ==
    /\ pc = "main"
    /\ IF argc = 2
         THEN /\ pc' = "init"
              /\ exitCode' = exitCode
         ELSE /\ pc' = "exited"
              /\ exitCode' = -1
    /\ lastOp' = [NoOp EXCEPT !.op = "main"]
    /\ UNCHANGED << terminationRequired, connVars, fdVars,
                    sendTelemetryButtonState, twinVars, acqVars, calls,
                    telemetry, tickHist, pollHist >>

\* value returned by InitPeripheralsAndHandlers when the resource failAt
\* cannot be acquired; line 311 tests buttonPollTimerFd, not azureTimerFd
InitResult(failAt) ==
    IF failAt \in {"none", "azureTimer"} THEN 0 ELSE -1

\* main line 191-193 with InitPeripheralsAndHandlers, lines 255-316
InitPeripheralsAndHandlers(failAt) ==
    /\ pc = "init"
    /\ epollFd' = (failAt # "epoll")
    /\ ledGpio' = IF failAt \in {"epoll", "buttonA", "buttonB", "led"}
                    THEN ledGpio ELSE "High"
    /\ buttonPollTimerFd' = (failAt \in {"none", "azureTimer"})
    /\ azureIoTPollPeriodSeconds' =
         IF failAt \in {"none", "azureTimer"}
           THEN AzureIoTDefaultPollPeriodSeconds
           ELSE azureIoTPollPeriodSeconds
    /\ azureTimerFd' = (failAt = "none")
    /\ initFailure' = failAt
    /\ azureTimerPeriod' = IF failAt = "none"
                             THEN AzureIoTDefaultPollPeriodSeconds
                             ELSE azureTimerPeriod
    /\ terminationRequired' = (InitResult(failAt) # 0)
    /\ pc' = "loop"
    /\ lastOp' = [NoOp EXCEPT !.op = "init"]
    /\ UNCHANGED << exitCode, iothubClientHandle, liveClients,
                    iothubAuthenticated, callbacksSet,
                    sendTelemetryButtonState, statusLedOn, nprId,
                    acqVars, calls, telemetry, tickHist, pollHist >>

\* variant: the loop dispatches again while a handler is still in its run
Dispatching_DuringRun == pc \in {"loop", "acq"} /\ ~terminationRequired

\* variant: the loop goes on dispatching after termination is required
Dispatching_IgnoresFlag == pc = "loop"

\* main line 196: the loop dispatches while no termination is required
Dispatching == pc = "loop" /\ ~terminationRequired

\* TerminationHandler, lines 128-132: SIGTERM, at any point once installed
TerminationHandler ==
    /\ pc \in {"loop", "acq"}
    /\ ~terminationRequired
    /\ terminationRequired' = TRUE
    /\ lastOp' = [NoOp EXCEPT !.op = "signal"]
    /\ UNCHANGED << pc, exitCode, connVars, fdVars, sendTelemetryButtonState,
                    twinVars, acqVars, calls, telemetry, tickHist, pollHist >>

\* main lines 197-199: WaitForEventAndCallHandler fails
WaitFails ==
    /\ Dispatching
    /\ terminationRequired' = TRUE
    /\ lastOp' = [NoOp EXCEPT !.op = "waitfail"]
    /\ calls' = << >>
    /\ telemetry' = << >>
    /\ UNCHANGED << pc, exitCode, connVars, fdVars, sendTelemetryButtonState,
                    twinVars, acqVars, tickHist, pollHist >>

\* main lines 202-206 with ClosePeripheralsAndHandlers, lines 321-338
ClosePeripheralsAndHandlers ==
    /\ pc = "loop"
    /\ terminationRequired
    /\ ledGpio' = IF ledGpio # "unset" THEN "High" ELSE ledGpio
    /\ pc' = "exited"
    /\ exitCode' = 0
    /\ lastOp' = [NoOp EXCEPT !.op = "close"]
    /\ calls' = << >>
    /\ telemetry' = << >>
    /\ UNCHANGED << terminationRequired, connVars, fdVars,
                    sendTelemetryButtonState, statusLedOn, nprId, acqVars,
                    tickHist, pollHist >>

(***************************************************************************)
(* Connection lifecycle                                                    *)
(***************************************************************************)
\* a call handed to the IoT Hub client library, with the handle it was made on
Call(fn, name, value) ==
    [fn |-> fn, handle |-> iothubClientHandle, name |-> name, value |-> value]

\* variant: the first failure doubles like the others (no restart at Min)
NextBackoff_NoMinStart(p) ==
    IF p * 2 > AzureIoTMaxReconnectPeriodSeconds
      THEN AzureIoTMaxReconnectPeriodSeconds
      ELSE p * 2

\* variant: a further failure halves the period
NextBackoff_Halves(p) ==
    IF p = AzureIoTDefaultPollPeriodSeconds
      THEN AzureIoTMinReconnectPeriodSeconds
      ELSE p \div 2

\* SetupAzureClient lines 383-390: the period after one more failed attempt
NextBackoff(p) ==
    IF p = AzureIoTDefaultPollPeriodSeconds
      THEN AzureIoTMinReconnectPeriodSeconds
      ELSE IF p * 2 > AzureIoTMaxReconnectPeriodSeconds
             THEN AzureIoTMaxReconnectPeriodSeconds
             ELSE p * 2

\* variant: the failure path does not reprogram the timer
ProvisioningFailed_NoTimer(before, clears) ==
    [ before EXCEPT
        !.prov = "failed",
        !.handle = IF clears \/ before.handle = "NULL" THEN "NULL" ELSE "dangling",
        !.callbacks = FALSE,
        !.period = NextBackoff(before.period) ]

\* SetupAzureClient lines 378-398: the provisioning call failed.
\*   clears: the failed call stored NULL in the handle (otherwise it left the
\*           pointer to the client just destroyed)
ProvisioningFailed(before, clears) ==
    [ before EXCEPT
        !.prov = "failed",
        !.handle = IF clears \/ before.handle = "NULL" THEN "NULL" ELSE "dangling",
        !.callbacks = FALSE,
        !.period = NextBackoff(before.period),
        !.timer = NextBackoff(before.period) ]

\* variant: the success path keeps the backoff period
ProvisioningSucceeded_KeepsPeriod(before, optionOk) ==
    [ before EXCEPT
        !.prov = "ok",
        !.handle = "live",
        !.live = IF @ < MaxClients THEN @ + 1 ELSE @,
        !.auth = TRUE,
        !.callbacks = optionOk,
        !.calls = before.calls \o << [fn |-> "SetOption", handle |-> "live",
                                      name |-> "keepalive", value |-> ""] >> ]

\* variant: the success path resets the period but not the timer
ProvisioningSucceeded_KeepsTimer(before, optionOk) ==
    [ before EXCEPT
        !.prov = "ok",
        !.handle = "live",
        !.live = IF @ < MaxClients THEN @ + 1 ELSE @,
        !.auth = TRUE,
        !.callbacks = optionOk,
        !.period = AzureIoTDefaultPollPeriodSeconds,
        !.calls = before.calls \o << [fn |-> "SetOption", handle |-> "live",
                                      name |-> "keepalive", value |-> ""] >> ]

\* SetupAzureClient lines 400-416: the provisioning call succeeded.
\*   optionOk: IoTHubDeviceClient_LL_SetOption returned IOTHUB_CLIENT_OK
ProvisioningSucceeded(before, optionOk) ==
    [ before EXCEPT
        !.prov = "ok",
        !.handle = "live",
        !.live = IF @ < MaxClients THEN @ + 1 ELSE @,
        !.auth = TRUE,
        !.callbacks = optionOk,
        !.period = AzureIoTDefaultPollPeriodSeconds,
        !.timer = AzureIoTDefaultPollPeriodSeconds,
        !.calls = before.calls \o << [fn |-> "SetOption", handle |-> "live",
                                      name |-> "keepalive", value |-> ""] >> ]

\* variant: the old client is left alone
DestroyExisting_Skips(before) == before

\* SetupAzureClient lines 369-370: a handle that is not NULL is destroyed
DestroyExisting(before) ==
    IF before.handle = "NULL" THEN before
    ELSE [ before EXCEPT
             !.calls = << [fn |-> "Destroy", handle |-> before.handle,
                           name |-> "", value |-> ""] >>,
             !.live = IF before.handle = "live" THEN @ - 1 ELSE @ ]

\* SetupAzureClient, lines 367-416, as the values it leaves behind.
\*   provOk: the provisioning call returned AZURE_SPHERE_PROV_RESULT_OK
\*   ub: what destroying an already destroyed client does
SetupAzureClient(provOk, clears, optionOk, ub) ==
    LET before == [ prov |-> "crash",
                    handle |-> iothubClientHandle,
                    auth |-> iothubAuthenticated,
                    callbacks |-> callbacksSet,
                    period |-> azureIoTPollPeriodSeconds,
                    timer |-> azureTimerPeriod,
                    live |-> liveClients,
                    calls |-> << >> ]
        destroyed == DestroyExisting(before)
    IN  IF iothubClientHandle = "dangling" /\ ub = "crash" THEN destroyed
        ELSE IF provOk THEN ProvisioningSucceeded(destroyed, optionOk)
        ELSE ProvisioningFailed(destroyed, clears)

\* the entry of tickLog for a tick
TickEntry(period, auth) == [period |-> period, auth |-> auth]

\* variant: the tick provisions whatever the network state
NeedsSetup_IgnoresNetwork(net, authenticated) == ~authenticated

\* AzureTimerEventHandler line 234: when the tick provisions
NeedsSetup(net, authenticated) == net = "ready" /\ ~authenticated

\* variant: the work step follows the state the tick was entered in
NeedsWork_OnEntry(authBefore, authAfter) == authBefore

\* AzureTimerEventHandler line 241: when the tick runs the client's work step,
\* given iothubAuthenticated on entry and after the provisioning step
NeedsWork(authBefore, authAfter) == authAfter

\* AzureTimerEventHandler, lines 225-245.
\*   consumeOk: ConsumeTimerFdEvent returned 0
\*   net: Networking_IsNetworkingReady failed ("error") or what it reported
AzureTimerEventHandler(consumeOk, net, provOk, clears, optionOk, ub) ==
    /\ Dispatching
    /\ azureTimerFd
    /\ IF ~consumeOk
         THEN /\ terminationRequired' = TRUE
              /\ lastOp' = [NoOp EXCEPT !.op = "tick"]
              /\ calls' = << >>
              /\ onScenario' = FALSE
              /\ tickLog' = << >>
              /\ UNCHANGED << pc, connVars, consecFailures >>
         ELSE LET doSetup == NeedsSetup(net, iothubAuthenticated)
                  r == SetupAzureClient(provOk, clears, optionOk, ub)
                  auth == IF doSetup THEN r.auth ELSE iothubAuthenticated
                  handle == IF doSetup THEN r.handle ELSE iothubClientHandle
                  crashed == doSetup /\ r.prov = "crash"
                  work == IF NeedsWork(iothubAuthenticated, auth) /\ ~crashed
                            THEN << [fn |-> "DoWork", handle |-> handle,
                                     name |-> "", value |-> ""] >>
                            ELSE << >>
                  prov == IF doSetup THEN r.prov ELSE "none"
                  period == IF doSetup THEN r.period
                            ELSE azureIoTPollPeriodSeconds
              IN  /\ iothubAuthenticated' = auth
                  /\ iothubClientHandle' = handle
                  /\ liveClients' = IF doSetup THEN r.live ELSE liveClients
                  /\ callbacksSet' = IF doSetup THEN r.callbacks ELSE callbacksSet
                  /\ azureIoTPollPeriodSeconds' = period
                  /\ azureTimerPeriod' = IF doSetup THEN r.timer
                                         ELSE azureTimerPeriod
                  /\ calls' = (IF doSetup THEN r.calls ELSE << >>) \o work
                  /\ pc' = IF crashed THEN "crashed" ELSE pc
                  /\ lastOp' = [NoOp EXCEPT !.op = "tick",
                                            !.consumed = TRUE,
                                            !.net = net,
                                            !.setup = doSetup,
                                            !.prov = prov,
                                            !.before = azureIoTPollPeriodSeconds,
                                            !.dowork = Len(work)]
                  /\ consecFailures' =
                       IF prov = "ok" THEN 0
                       ELSE IF prov = "failed" /\ consecFailures < MaxFailures
                         THEN consecFailures + 1
                       ELSE consecFailures
                  /\ LET follows ==
                            /\ onScenario
                            /\ Len(tickLog) < Len(Scenario)
                            /\ net = "ready"
                            /\ prov = IF Scenario[Len(tickLog) + 1]
                                        THEN "ok" ELSE "failed"
                     IN  /\ onScenario' = follows
                         /\ tickLog' =
                              IF follows
                                THEN Append(tickLog, TickEntry(period, auth))
                                ELSE << >>
                  /\ UNCHANGED terminationRequired
    /\ telemetry' = << >>
    /\ UNCHANGED << exitCode, fdVars, sendTelemetryButtonState, twinVars,
                    acqVars, pollHist >>

\* variant: a report is sent only when the value differs from statusLedOn
TwinReportBoolState_Dedup(propertyName, propertyValue) ==
    IF iothubClientHandle = "NULL" \/ propertyValue = statusLedOn
      THEN << >>
      ELSE << Call("SendReportedState", propertyName,
                   IF propertyValue = TRUE THEN "true" ELSE "false") >>

\* TwinReportBoolState, lines 579-599: the transport calls it makes
TwinReportBoolState(propertyName, propertyValue) ==
    IF iothubClientHandle = "NULL"
      THEN << >>
      ELSE << Call("SendReportedState", propertyName,
                   IF propertyValue = TRUE THEN "true" ELSE "false") >>

\* TwinReportStringState, lines 608-630: the transport calls it makes
TwinReportStringState(propertyName, propertyValue) ==
    IF iothubClientHandle = "NULL"
      THEN << >>
      ELSE << Call("SendReportedState", propertyName, propertyValue) >>

\* variant: every notification counts as authenticated
IsAuthenticated_Always(result) == TRUE

\* HubConnectionStatusCallback line 348
IsAuthenticated(result) == result = "AUTHENTICATED"

\* HubConnectionStatusCallback, lines 344-360; the client library invokes it
\* on the handle it was registered on
HubConnectionStatusCallback(result) ==
    /\ Dispatching
    /\ callbacksSet
    /\ iothubClientHandle = "live"
    /\ iothubAuthenticated' = IsAuthenticated(result)
    /\ calls' = IF IsAuthenticated(result)
                  THEN TwinReportStringState("max30102_revision", "0x..")
                       \o TwinReportStringState("max30102_part_id", "0x..")
                  ELSE << >>
    /\ telemetry' = << >>
    /\ lastOp' = [NoOp EXCEPT !.op = "status", !.status = result]
    /\ UNCHANGED << pc, exitCode, terminationRequired, iothubClientHandle,
                    liveClients, callbacksSet, azureIoTPollPeriodSeconds,
                    azureTimerPeriod,
                    fdVars, sendTelemetryButtonState, twinVars, acqVars,
                    tickHist, pollHist >>

(***************************************************************************)
(* Device twin                                                             *)
(***************************************************************************)
\* (bool)json_object_get_boolean(LEDState, "value"), line 455: parson returns
\* -1 when the value is not a boolean, and (bool)-1 is true
LedValue(led) == led # "false"

\* variant: StatusLED is looked up in the text without the parse check
HasLed_IgnoresParse(payload) == payload.led # "absent"

\* TwinCallback lines 439-454: the payload parses and holds a StatusLED object
HasLed(payload) == payload.parses /\ payload.led # "absent"

\* TwinCallback lines 439-462: the payload parses and holds an nprId object
HasNpr(payload) == payload.parses /\ payload.npr.kind # "absent"

\* TwinCallback, lines 424-472.
\*   ub: what strcpy does with a NULL source or a string longer than nprId
TwinCallback(payload, ub) ==
    /\ Dispatching
    /\ callbacksSet
    /\ iothubClientHandle = "live"
    /\ LET hasLed == HasLed(payload)
           hasNpr == HasNpr(payload)
           undefined == hasNpr /\ ( \/ payload.npr.kind = "notstring"
                                    \/ Len(payload.npr.str) >= NprIdCapacity )
           crashed == undefined /\ (ub = "crash" \/ payload.npr.kind = "notstring")
           led == IF hasLed THEN LedValue(payload.led) ELSE statusLedOn
           id == IF hasNpr /\ ~crashed THEN payload.npr.str ELSE nprId
       IN  /\ statusLedOn' = led
           /\ ledGpio' = IF hasLed
                           THEN (IF led = TRUE THEN "Low" ELSE "High")
                           ELSE ledGpio
           /\ nprId' = id
           /\ pc' = IF crashed THEN "crashed" ELSE pc
           /\ calls' =
                (IF hasLed THEN TwinReportBoolState("StatusLED", led)
                           ELSE << >>)
                \o (IF hasNpr /\ ~crashed
                      THEN TwinReportStringState("nprId", id)
                           \o TwinReportStringState("nprId_property", id)
                      ELSE << >>)
    /\ telemetry' = << >>
    /\ lastOp' = [NoOp EXCEPT !.op = "twin",
                              !.payload = payload,
                              !.again = (lastOp.op = "twin"
                                         /\ lastOp.payload = payload)]
    /\ UNCHANGED << exitCode, terminationRequired, connVars, fdVars,
                    sendTelemetryButtonState, acqVars, tickHist, pollHist >>

(***************************************************************************)
(* Button poll and acquisition run                                         *)
(***************************************************************************)
\* variant: level-detected instead of edge-detected
IsButtonPressed_Level(newState, oldState) == newState = "Low"

\* IsButtonPressed line 664
IsButtonPressed(newState, oldState) ==
    (newState # oldState) /\ (newState = "Low")

\* ButtonPollTimerEventHandler, lines 212-220, with IsButtonPressed, lines
\* 654-669, and SendTelemetryButtonHandler up to the acquisition loop, lines
\* 675-703.
\*   consumeOk: ConsumeTimerFdEvent returned 0
\*   readOk, newState: result of GPIO_GetValue on the button
ButtonPollTimerEventHandler(consumeOk, readOk, newState) ==
    /\ Dispatching
    /\ buttonPollTimerFd
    /\ LET read == consumeOk /\ readOk
           pressed == read /\ IsButtonPressed(newState, sendTelemetryButtonState)
       IN  /\ terminationRequired' = (terminationRequired \/ ~read)
           /\ sendTelemetryButtonState' =
                IF read THEN newState ELSE sendTelemetryButtonState
           /\ lastOp' = [NoOp EXCEPT !.op = "poll",
                                     !.consumed = consumeOk,
                                     !.read = read,
                                     !.level = IF read THEN newState ELSE "na",
                                     !.old = sendTelemetryButtonState,
                                     !.pressed = pressed]
           /\ IF pressed
                THEN /\ pc' = "acq"
                     /\ sensorOn' = TRUE
                     /\ intVal' = "High"
                     /\ elapsed' = 0
                     /\ average_hr' = 0
                     /\ nbr_readings' = 0
                     /\ average_spo2' = 0
                     /\ windows' = << >>
                ELSE UNCHANGED << pc, acqVars >>
           /\ IF recordPolls /\ read /\ Len(polled) < MaxPolls
                THEN /\ polled' = Append(polled, newState)
                     /\ triggers' = triggers + (IF pressed THEN 1 ELSE 0)
                ELSE UNCHANGED << polled, triggers >>
           /\ UNCHANGED << recordPolls, windowSecs >>
    /\ calls' = << >>
    /\ telemetry' = << >>
    /\ UNCHANGED << exitCode, connVars, fdVars, twinVars, tickHist >>

\* the windows of ws whose results carry both validity flags
ValidWindows(ws) == SelectSeq(ws, LAMBDA w : w.hr_valid /\ w.spo2_valid)

\* variant: only the heart-rate flag gates the accumulation
Accumulate_HrFlagOnly(acc, w) ==
    IF w.hr_valid
      THEN [hr |-> acc.hr + w.hr, spo2 |-> acc.spo2 + w.spo2, n |-> acc.n + 1]
      ELSE acc

\* the accumulator after one window, lines 721-727
Accumulate(acc, w) ==
    IF w.hr_valid /\ w.spo2_valid
      THEN [hr |-> acc.hr + w.hr, spo2 |-> acc.spo2 + w.spo2, n |-> acc.n + 1]
      ELSE acc

\* the sensor asserts its interrupt line: the samples of a window are ready.
\* Nothing obliges the sensor to do so.
SensorReady ==
    /\ pc = "acq"
    /\ intVal = "High"
    /\ intVal' = "Low"
    /\ lastOp' = [NoOp EXCEPT !.op = "sensor"]
    /\ UNCHANGED << pc, exitCode, terminationRequired, connVars, fdVars,
                    sendTelemetryButtonState, twinVars, sensorOn, elapsed,
                    average_hr, average_spo2, nbr_readings, windows, calls,
                    telemetry, tickHist, pollHist >>

\* one iteration of the acquisition loop, lines 705-732: the spin-wait of
\* lines 710-712 has seen the line asserted for each of the W samples, the
\* samples are read (which releases the line), the signal-processing step
\* returns w, and d seconds have passed
AcquireWindow(w, d) ==
    /\ pc = "acq"
    /\ elapsed < run_time
    /\ intVal = "Low"
    /\ intVal' = "High"
    /\ LET acc == Accumulate([hr |-> average_hr, spo2 |-> average_spo2,
                              n |-> nbr_readings], w)
       IN  /\ average_hr' = acc.hr
           /\ average_spo2' = acc.spo2
           /\ nbr_readings' = acc.n
    /\ windows' = Append(windows, w)
    /\ elapsed' = elapsed + d
    /\ lastOp' = [NoOp EXCEPT !.op = "window"]
    /\ UNCHANGED << pc, exitCode, terminationRequired, connVars, fdVars,
                    sendTelemetryButtonState, twinVars, sensorOn, calls,
                    telemetry, tickHist, pollHist >>

\* C integer division, truncating toward zero
CDiv(a, b) ==
    IF (a >= 0) = (b > 0) THEN a \div b
    ELSE -((-a) \div b)

RECURSIVE Digits(_)
\* the decimal digits of n >= 0
Digits(n) ==
    IF n < 10 THEN << n >> ELSE Append(Digits(n \div 10), n % 10)

\* snprintf(buf, size, "%d", n): sign and digits, cut to size - 1 characters
FormatInt(n, size) ==
    LET full == IF n < 0 THEN << "-" >> \o Digits(-n) ELSE Digits(n)
    IN  SubSeq(full, 1, IF Len(full) < size - 1 THEN Len(full) ELSE size - 1)

\* sum / n in hundredths, rounded to the nearest hundredth, ties to even
RoundedMean(sum, n) ==
    LET q == sum \div n
        r == sum % n
    IN  IF 2 * r > n \/ (2 * r = n /\ q % 2 = 1) THEN q + 1 ELSE q

\* snprintf(buf, size, "%3.2f", sum / n) for a non-negative mean given in
\* hundredths: integer part, point, two decimals, cut to size - 1 characters
FormatFixed2(sum, n, size) ==
    LET h == RoundedMean(sum, n)
        full == Digits(h \div 100) \o << "." >> \o << (h % 100) \div 10, h % 10 >>
    IN  SubSeq(full, 1, IF Len(full) < size - 1 THEN Len(full) ELSE size - 1)

\* SendTelemetry, lines 535-560: the transport calls it makes.
\*   msgOk: IoTHubMessage_CreateFromString returned a message
SendTelemetry(key, value, msgOk) ==
    IF msgOk THEN << Call("SendEventAsync", key, value) >> ELSE << >>

\* variant: only the heart rate is reported
RunTelemetry_HeartRateOnly(sumHr, sumSpo2, n) ==
    IF n > 0
      THEN << [key |-> "Heart_rate", value |-> FormatInt(CDiv(sumHr, n), 10)] >>
      ELSE << >>

\* Telemetry Reporter invocations after the loop, lines 734-750
RunTelemetry(sumHr, sumSpo2, n) ==
    IF n > 0
      THEN << [key |-> "Heart_rate", value |-> FormatInt(CDiv(sumHr, n), 10)],
              [key |-> "SpO2", value |-> FormatFixed2(sumSpo2, n, 10)] >>
      ELSE << >>

\* end of SendTelemetryButtonHandler, lines 734-753: the loop has ended, the
\* averages are sent, the sensor is shut down, the handler returns
FinishRun(msgOk1, msgOk2) ==
    /\ pc = "acq"
    /\ ~(elapsed < run_time)
    /\ LET sends == RunTelemetry(average_hr, average_spo2, nbr_readings)
       IN  /\ telemetry' = sends
           /\ calls' =
                IF sends = << >> THEN << >>
                ELSE SendTelemetry(sends[1].key, sends[1].value, msgOk1)
                     \o (IF Len(sends) > 1
                           THEN SendTelemetry(sends[2].key, sends[2].value, msgOk2)
                           ELSE << >>)
    /\ sensorOn' = FALSE
    /\ intVal' = "High"
    /\ lastOp' = [NoOp EXCEPT !.op = "finish", !.v = Len(ValidWindows(windows))]
    /\ pc' = "loop"
    /\ elapsed' = -1
    /\ average_hr' = -1
    /\ average_spo2' = -1
    /\ nbr_readings' = -1
    /\ windows' = << >>
    /\ UNCHANGED << exitCode, terminationRequired, connVars, fdVars,
                    sendTelemetryButtonState, twinVars, tickHist, pollHist >>

(***************************************************************************)
(* The program                                                             *)
(***************************************************************************)
\* the values of an input that the handler reads when cond holds
Input(cond, values, unread) == IF cond THEN values ELSE {unread}

Tick ==
    \E consumeOk \in BOOLEAN :
    \E net \in Input(consumeOk, {"ready", "notready", "error"}, "error") :
    \E provOk \in Input(consumeOk /\ NeedsSetup(net, iothubAuthenticated),
                        BOOLEAN, TRUE) :
    \E clears \in Input(~provOk /\ iothubClientHandle # "NULL", BOOLEAN, TRUE) :
    \E optionOk \in Input(consumeOk /\ NeedsSetup(net, iothubAuthenticated)
                          /\ provOk, BOOLEAN, TRUE) :
    \E ub \in Input(consumeOk /\ NeedsSetup(net, iothubAuthenticated)
                    /\ iothubClientHandle = "dangling", UBOutcomes, "continue") :
        AzureTimerEventHandler(consumeOk, net, provOk, clears, optionOk, ub)

Twin ==
    \E payload \in TwinPayloads :
    \E ub \in Input(payload.npr.kind = "string"
                    /\ Len(payload.npr.str) >= NprIdCapacity,
                    UBOutcomes, "crash") :
        TwinCallback(payload, ub)

Poll ==
    \E consumeOk \in BOOLEAN :
    \E readOk \in Input(consumeOk, BOOLEAN, FALSE) :
    \E newState \in Input(readOk, Levels, "High") :
        ButtonPollTimerEventHandler(consumeOk, readOk, newState)

Finish ==
    \E msgOk1 \in Input(nbr_readings > 0, BOOLEAN, TRUE) :
    \E msgOk2 \in Input(nbr_readings > 0, BOOLEAN, TRUE) :
        FinishRun(msgOk1, msgOk2)

Next ==
    \/ \E argc \in 1..2 : Main(argc)
    \/ \E failAt \in InitFailures : InitPeripheralsAndHandlers(failAt)
    \/ TerminationHandler
    \/ WaitFails
    \/ ClosePeripheralsAndHandlers
    \/ Tick
    \/ \E result \in ConnectionStatuses : HubConnectionStatusCallback(result)
    \/ Twin
    \/ Poll
    \/ SensorReady
    \/ \E w \in WindowResults, d \in windowSecs : AcquireWindow(w, d)
    \/ Finish

Spec == Init /\ [][Next]_vars

(***************************************************************************)
(* The program on a processor that runs it: a handler or the teardown that *)
(* can take its next step takes it.  Timer events, signals, callbacks and  *)
(* the sensor's interrupt line belong to the environment and are under no  *)
(* obligation.                                                             *)
(***************************************************************************)
SpecFair ==
    /\ Spec
    /\ WF_vars(ClosePeripheralsAndHandlers)
    /\ WF_vars(\E w \in WindowResults, d \in windowSecs : AcquireWindow(w, d))
    /\ WF_vars(Finish)

(***************************************************************************)
(* The button handler alone, with the polled levels recorded               *)
(***************************************************************************)
InitPolls ==
    /\ StaticInit
    /\ recordPolls = TRUE
    /\ windowSecs = WindowSecs

NextPolls ==
    \/ \E argc \in 1..2 : Main(argc)
    \/ \E failAt \in InitFailures : InitPeripheralsAndHandlers(failAt)
    \/ ClosePeripheralsAndHandlers
    \/ Poll
    \/ SensorReady
    \/ \E w \in WindowResults, d \in windowSecs : AcquireWindow(w, d)
    \/ Finish

SpecPolls == InitPolls /\ [][NextPolls]_vars

(***************************************************************************)
(* The button handler alone, with runs of three windows                    *)
(***************************************************************************)
InitRuns ==
    /\ StaticInit
    /\ recordPolls = FALSE
    /\ windowSecs = ShortWindowSecs

SpecRuns == InitRuns /\ [][NextPolls]_vars

(***************************************************************************)
(* Properties                                                              *)
(***************************************************************************)
RECURSIVE Pow2(_)
Pow2(n) == IF n = 0 THEN 1 ELSE 2 * Pow2(n - 1)

Min(a, b) == IF a < b THEN a ELSE b

\* the period the backoff rule prescribes after n >= 1 consecutive failures
ExpectedBackoff(n) ==
    Min(AzureIoTMinReconnectPeriodSeconds * Pow2(n - 1),
        AzureIoTMaxReconnectPeriodSeconds)

\* C1: after n >= 1 consecutive failed provisioning attempts, counted from
\* BackoffPeriod = Default, BackoffPeriod = min(Min * 2^(n-1), Max)
C1_BackoffAfterFailures ==
    (consecFailures >= 1 /\ consecFailures < MaxFailures)
        => azureIoTPollPeriodSeconds = ExpectedBackoff(consecFailures)

\* C2: with the network ready, two failed attempts and then a successful one,
\* on the first three ticks of the program, leave the BackoffPeriod values
\* Min, Min*2, Default and the state Authenticated
C2_StartupScenario ==
    Len(tickLog) = Len(Scenario) =>
        /\ [i \in 1..Len(tickLog) |-> tickLog[i].period]
             = << AzureIoTMinReconnectPeriodSeconds,
                  AzureIoTMinReconnectPeriodSeconds * 2,
                  AzureIoTDefaultPollPeriodSeconds >>
        /\ tickLog[Len(tickLog)].auth

C2_Witness ==
    /\ Len(tickLog) = Len(Scenario)
    /\ lastOp.op = "tick"
    /\ lastOp.prov = "ok"

\* C3: a successful provisioning attempt leaves BackoffPeriod = Default, the
\* timer programmed to Default and the state Authenticated, whatever the
\* BackoffPeriod was before
C3_SuccessResets ==
    [][ (lastOp'.op = "tick" /\ lastOp'.prov = "ok") =>
          /\ azureIoTPollPeriodSeconds' = AzureIoTDefaultPollPeriodSeconds
          /\ azureTimerPeriod' = AzureIoTDefaultPollPeriodSeconds
          /\ iothubAuthenticated' ]_vars

C3_Witness ==
    /\ lastOp.op = "tick"
    /\ lastOp.prov = "ok"
    /\ lastOp.before = AzureIoTMinReconnectPeriodSeconds
    /\ azureIoTPollPeriodSeconds = AzureIoTDefaultPollPeriodSeconds

\* C4: once initialisation has succeeded, BackoffPeriod lies in
\* [MinReconnect, MaxReconnect] in every state
C4_BackoffInRange ==
    buttonPollTimerFd =>
        /\ azureIoTPollPeriodSeconds >= AzureIoTMinReconnectPeriodSeconds
        /\ azureIoTPollPeriodSeconds <= AzureIoTMaxReconnectPeriodSeconds

C4_Witness ==
    /\ buttonPollTimerFd
    /\ consecFailures >= 3
    /\ azureIoTPollPeriodSeconds = AzureIoTMinReconnectPeriodSeconds
    /\ nprId # << >>
    /\ lastOp.op = "poll"
    /\ sendTelemetryButtonState = "Low"

\* C5: a connection-status notification changes nothing but ConnectionState
\* (in particular neither BackoffPeriod nor the timer period), which becomes
\* Authenticated iff the notified status is "authenticated"
C5_StatusCallbackFrame ==
    [][ lastOp'.op = "status" =>
          /\ iothubAuthenticated' = (lastOp'.status = "AUTHENTICATED")
          /\ UNCHANGED << azureIoTPollPeriodSeconds, azureTimerPeriod,
                          iothubClientHandle, callbacksSet, pc, exitCode,
                          terminationRequired, fdVars, twinVars,
                          sendTelemetryButtonState, acqVars >> ]_vars

C5_Witness ==
    /\ lastOp.op = "status"
    /\ lastOp.status = "UNAUTHENTICATED"
    /\ ~iothubAuthenticated

\* a tick that consumed its timer event and found the network not reachable
TickWithoutNetwork ==
    /\ lastOp'.op = "tick"
    /\ lastOp'.consumed
    /\ lastOp'.net # "ready"

\* C6 as stated: a tick without network does nothing at all: no provisioning
\* attempt, no background-work step, connection state unchanged
C6_NoNetworkNoWork ==
    [][ TickWithoutNetwork =>
          /\ ~lastOp'.setup
          /\ lastOp'.dowork = 0
          /\ UNCHANGED connVars ]_vars

\* C6 amended: a tick without network makes no provisioning attempt and
\* leaves the connection state unchanged; the background-work step runs
\* once if the state is Authenticated and not at all otherwise
C6_NoNetworkNoSetup ==
    [][ TickWithoutNetwork =>
          /\ ~lastOp'.setup
          /\ lastOp'.dowork = (IF iothubAuthenticated THEN 1 ELSE 0)
          /\ calls' = IF iothubAuthenticated
                        THEN << Call("DoWork", "", "") >> ELSE << >>
          /\ UNCHANGED connVars ]_vars

C6_Witness ==
    /\ lastOp.op = "tick"
    /\ lastOp.consumed
    /\ lastOp.net = "notready"
    /\ lastOp.dowork = 1
    /\ iothubAuthenticated

\* C7: a failed provisioning attempt leaves the state Unauthenticated, the
\* termination flag and the main loop as they were and the timer programmed
\* to the new BackoffPeriod; and every tick that finds the network ready in
\* state Unauthenticated makes a provisioning attempt
C7_FailureNotFatal ==
    [][ /\ (lastOp'.op = "tick" /\ lastOp'.prov = "failed") =>
              /\ ~iothubAuthenticated'
              /\ azureTimerPeriod' = azureIoTPollPeriodSeconds'
              /\ UNCHANGED << terminationRequired, pc, exitCode, fdVars >>
        /\ ( /\ lastOp'.op = "tick"
             /\ lastOp'.consumed
             /\ lastOp'.net = "ready"
             /\ ~iothubAuthenticated ) => lastOp'.setup ]_vars

C7_Witness ==
    /\ lastOp.op = "tick"
    /\ lastOp.prov = "failed"
    /\ consecFailures >= 2
    /\ Dispatching
    /\ azureTimerPeriod = azureIoTPollPeriodSeconds

RECURSIVE FallingEdges(_, _)
\* the High -> Low transitions in the levels, the level before them being last
FallingEdges(last, levels) ==
    IF levels = << >> THEN 0
    ELSE (IF last = "High" /\ Head(levels) = "Low" THEN 1 ELSE 0)
         + FallingEdges(Head(levels), Tail(levels))

\* C8: a poll triggers iff it reads Low after High; the triggers over a polled
\* sequence number its High -> Low transitions, the level before the first
\* poll being High; every successful poll updates the last-observed level
C8_EdgeDetection ==
    /\ triggers = FallingEdges("High", polled)
    /\ (lastOp.op = "poll" /\ lastOp.read) =>
          /\ lastOp.pressed = (lastOp.level = "Low" /\ lastOp.old = "High")
          /\ sendTelemetryButtonState = lastOp.level
    /\ (polled # << >> /\ Len(polled) < MaxPolls) =>
          sendTelemetryButtonState = polled[Len(polled)]

C8_Witness ==
    /\ polled = << "High", "High", "Low", "Low", "High", "Low" >>
    /\ triggers = 2

RECURSIVE SumOf(_, _)
\* the sum of field f ("hr" or "spo2") over the window results ws
SumOf(ws, f) ==
    IF ws = << >> THEN 0
    ELSE (IF f = "hr" THEN Head(ws).hr ELSE Head(ws).spo2) + SumOf(Tail(ws), f)

\* C9: throughout a run the accumulator holds the count and the sums of
\* exactly the windows processed so far in this run whose two validity flags
\* are set (so it is zero when the run starts, and at the end it holds the v
\* valid windows of the k processed)
C9_AccumulatorValidOnly ==
    pc = "acq" =>
        /\ nbr_readings = Len(ValidWindows(windows))
        /\ average_hr = SumOf(ValidWindows(windows), "hr")
        /\ average_spo2 = SumOf(ValidWindows(windows), "spo2")

C9_Witness ==
    /\ pc = "acq"
    /\ ~(elapsed < run_time)
    /\ Len(windows) = 2
    /\ nbr_readings = 1
    /\ ~windows[1].spo2_valid

\* C10: a run invokes the Telemetry Reporter not at all when no window was
\* valid, and otherwise exactly twice, for Heart_rate and then for SpO2; the
\* transport receives no other send from the run
C10_TelemetrySends ==
    /\ pc = "acq" => (telemetry = << >> /\ calls = << >>)
    /\ lastOp.op = "finish" =>
          /\ IF lastOp.v = 0
               THEN telemetry = << >>
               ELSE /\ Len(telemetry) = 2
                    /\ telemetry[1].key = "Heart_rate"
                    /\ telemetry[2].key = "SpO2"
          /\ Len(calls) <= Len(telemetry)
          /\ \A i \in 1..Len(calls) : calls[i].fn = "SendEventAsync"

C10_Witness ==
    /\ lastOp.op = "finish"
    /\ lastOp.v = 2
    /\ Len(telemetry) = 2
    /\ Len(calls) = 2

\* the reported-property sends among the transport calls cs that carry name
SendsNamed(cs, name) ==
    SelectSeq(cs, LAMBDA c : c.fn = "SendReportedState" /\ c.name = name)

\* C11: when the twin callback is handed, twice in a row, the same payload
\* with a boolean StatusLED, statusLedOn and the LED output are after the
\* second apply what they were after the first, and each of the two applies
\* makes exactly one StatusLED reported-property send
C11_TwinApplyTwice ==
    [][ ( /\ lastOp'.op = "twin"
          /\ lastOp'.again
          /\ lastOp'.payload.parses
          /\ lastOp'.payload.led \in {"true", "false"} )
        => /\ statusLedOn' = statusLedOn
           /\ ledGpio' = ledGpio
           /\ Len(SendsNamed(calls, "StatusLED")) = 1
           /\ Len(SendsNamed(calls', "StatusLED")) = 1
           /\ SendsNamed(calls', "StatusLED")[1].value = lastOp'.payload.led ]_vars

C11_Witness ==
    /\ lastOp.op = "twin"
    /\ lastOp.again
    /\ lastOp.payload.parses
    /\ lastOp.payload.led = "true"
    /\ statusLedOn
    /\ ledGpio = "Low"
    /\ Len(SendsNamed(calls, "StatusLED")) = 1

\* C12: a twin callback whose payload does not parse changes none of
\* statusLedOn, the LED output, nprId, iothubAuthenticated, the poll period
\* and terminationRequired, and makes no reported-property send
C12_UnparseableIgnored ==
    [][ (lastOp'.op = "twin" /\ ~lastOp'.payload.parses)
        => /\ UNCHANGED << statusLedOn, ledGpio, nprId, iothubAuthenticated,
                           azureIoTPollPeriodSeconds, azureTimerPeriod,
                           terminationRequired, pc >>
           /\ calls' = << >> ]_vars

C12_Witness ==
    /\ lastOp.op = "twin"
    /\ ~lastOp.payload.parses
    /\ lastOp.payload.led = "true"
    /\ ~statusLedOn
    /\ ledGpio = "High"
    /\ nprId # << >>
    /\ calls = << >>

\* C13: a twin callback whose payload parses changes statusLedOn and the LED
\* output only if the payload holds StatusLED, nprId only if it holds nprId,
\* and nothing else of the local state; with neither property it makes no
\* reported-property send; with nprId it stores the value and makes exactly
\* two sends of it, named nprId and nprId_property, and no other send but
\* the one for StatusLED
C13_TwinFrame ==
    [][ (lastOp'.op = "twin" /\ lastOp'.payload.parses)
        => LET payload == lastOp'.payload
               led == payload.led # "absent"
               npr == payload.npr.kind # "absent"
           IN  /\ UNCHANGED << iothubAuthenticated, azureIoTPollPeriodSeconds,
                               azureTimerPeriod, terminationRequired >>
               /\ ~led => UNCHANGED << statusLedOn, ledGpio >>
               /\ ~npr => UNCHANGED nprId
               /\ (~led /\ ~npr) => calls' = << >>
               /\ npr =>
                    /\ nprId' = payload.npr.str
                    /\ Len(SendsNamed(calls', "nprId")) = 1
                    /\ Len(SendsNamed(calls', "nprId_property")) = 1
                    /\ SendsNamed(calls', "nprId")[1].value = nprId'
                    /\ SendsNamed(calls', "nprId_property")[1].value = nprId'
                    /\ Len(calls') = 2 + Len(SendsNamed(calls', "StatusLED")) ]_vars

\* the C13 statement for payloads whose nprId, if any, is a string that fits
C13_TwinFrameFitting ==
    [][ ( /\ lastOp'.op = "twin"
          /\ lastOp'.payload.parses
          /\ lastOp'.payload.npr.kind # "notstring"
          /\ Len(lastOp'.payload.npr.str) < NprIdCapacity )
        => LET payload == lastOp'.payload
               led == payload.led # "absent"
               npr == payload.npr.kind # "absent"
           IN  /\ UNCHANGED << iothubAuthenticated, azureIoTPollPeriodSeconds,
                               azureTimerPeriod, terminationRequired, pc >>
               /\ ~led => UNCHANGED << statusLedOn, ledGpio >>
               /\ ~npr => UNCHANGED nprId
               /\ (~led /\ ~npr) => calls' = << >>
               /\ npr =>
                    /\ nprId' = payload.npr.str
                    /\ Len(SendsNamed(calls', "nprId")) = 1
                    /\ Len(SendsNamed(calls', "nprId_property")) = 1
                    /\ SendsNamed(calls', "nprId")[1].value = nprId'
                    /\ SendsNamed(calls', "nprId_property")[1].value = nprId'
                    /\ Len(calls') = 2 + Len(SendsNamed(calls', "StatusLED")) ]_vars

\* C14: the process exits with status 0 only through the teardown that
\* follows a termination request raised by the loop or a signal, and with a
\* non-zero status when the scope-id argument is missing and when
\* InitPeripheralsAndHandlers returned failure
C14_ExitStatus ==
    pc = "exited" =>
        /\ initFailure = "notrun" => exitCode # 0
        /\ (initFailure # "notrun" /\ InitResult(initFailure) # 0)
              => exitCode # 0
        /\ exitCode = 0 => (terminationRequired /\ lastOp.op = "close")

\* C15: when initialisation cannot acquire one of its resources, main is
\* told so (it requests termination before the loop) and no handler is ever
\* dispatched: nothing runs after initialisation but the teardown
C15_InitFailureNoDispatch ==
    initFailure \notin {"notrun", "none"} =>
        /\ pc = "loop" => terminationRequired
        /\ lastOp.op \in {"init", "close"}

\* the C15 statement for every resource but the Azure timer
C15_DetectedFailureNoDispatch ==
    initFailure \notin {"notrun", "none", "azureTimer"} =>
        /\ pc = "loop" => terminationRequired
        /\ lastOp.op \in {"init", "close"}

\* C16: from the start of an acquisition run to its end every step is a step
\* of the run (the sensor's line, a window, the end of the run) or the
\* arrival of the termination signal: no tick, no work step, no button poll
\* and no callback runs, and the connection state, the poll period, the
\* client handle, the button state and the twin state do not change
C16_RunNotInterleaved ==
    [][ pc = "acq" =>
          \/ UNCHANGED vars
          \/ /\ lastOp'.op \in {"sensor", "window", "finish", "signal"}
             /\ UNCHANGED << connVars, sendTelemetryButtonState, twinVars >>
             /\ \A i \in 1..Len(calls') : calls'[i].fn = "SendEventAsync" ]_vars

C16_Witness ==
    /\ pc = "acq"
    /\ lastOp.op = "window"
    /\ Len(windows) = 1
    /\ elapsed < run_time
    /\ iothubAuthenticated
    /\ callbacksSet
    /\ iothubClientHandle = "live"
    /\ ~terminationRequired

\* C17: a tick whose provisioning attempt leaves iothubAuthenticated true has
\* configured the client and registered the status and twin callbacks on the
\* handle it leaves behind
C17_AuthenticatedMeansConfigured ==
    (lastOp.op = "tick" /\ lastOp.setup /\ iothubAuthenticated)
        => (callbacksSet /\ iothubClientHandle = "live")

\* number of work-step calls among the transport calls cs
WorkSteps(cs) == Len(SelectSeq(cs, LAMBDA c : c.fn = "DoWork"))

\* C19: a tick that has consumed its timer event runs the client's work step
\* once if iothubAuthenticated is true at its end and not at all otherwise:
\* once on the tick whose provisioning succeeded, never on a tick whose
\* provisioning failed or that stays unauthenticated
C19_WorkStepIffAuthenticated ==
    (lastOp.op = "tick" /\ lastOp.consumed) =>
        /\ WorkSteps(calls) = (IF iothubAuthenticated THEN 1 ELSE 0)
        /\ lastOp.dowork = WorkSteps(calls)
        /\ lastOp.prov = "ok" => WorkSteps(calls) = 1
        /\ lastOp.prov = "failed" => WorkSteps(calls) = 0

C19_Witness ==
    /\ lastOp.op = "tick"
    /\ lastOp.consumed
    /\ lastOp.prov = "ok"
    /\ iothubAuthenticated
    /\ WorkSteps(calls) = 1
    /\ calls[Len(calls)].fn = "DoWork"

\* a tick without provisioning (no network) in state Unauthenticated, and one
\* whose provisioning failed: neither runs the work step
C19_WitnessIdle ==
    /\ lastOp.op = "tick"
    /\ lastOp.consumed
    /\ lastOp.prov = "failed"
    /\ consecFailures = 2
    /\ ~iothubAuthenticated
    /\ WorkSteps(calls) = 0

\* C18: a failed timer-event consume, a failed button read, a failed wait and
\* the termination signal each set terminationRequired; once set it stays
\* set; the only steps after it are those that finish the handler in
\* progress and then the teardown, which ends the process; and once the
\* loop has the flag in front of it the teardown does run
C18_FatalStopsDispatch ==
    /\ [][ /\ ( \/ lastOp'.op \in {"waitfail", "signal"}
                \/ (lastOp'.op = "tick" /\ ~lastOp'.consumed)
                \/ (lastOp'.op = "poll" /\ ~lastOp'.read) )
              => terminationRequired'
           /\ terminationRequired =>
                /\ terminationRequired'
                /\ \/ UNCHANGED vars
                   \/ /\ pc = "acq"
                      /\ lastOp'.op \in {"sensor", "window", "finish"}
                   \/ /\ pc = "loop"
                      /\ lastOp'.op = "close"
                      /\ pc' = "exited"
           /\ lastOp'.op = "close" => (lastOp.op # "close" \/ UNCHANGED vars)
           /\ pc = "exited" => UNCHANGED vars ]_vars
    /\ (terminationRequired /\ pc = "loop") ~> (pc = "exited" /\ lastOp.op = "close")

C18_Witness ==
    /\ pc = "exited"
    /\ exitCode = 0
    /\ terminationRequired
    /\ lastOp.op = "close"
    /\ iothubAuthenticated
    /\ sendTelemetryButtonState = "Low"
    /\ initFailure = "none"

\* C20: an acquisition run that has started ends
C20_RunEnds ==
    (pc = "acq") ~> (pc # "acq")

\* C21: in every state in which iothubAuthenticated is true the poll period
\* and the period the Azure timer is programmed with are both
\* AzureIoTDefaultPollPeriodSeconds
C21_AuthenticatedAtDefault ==
    iothubAuthenticated =>
        /\ azureIoTPollPeriodSeconds = AzureIoTDefaultPollPeriodSeconds
        /\ azureTimerPeriod = AzureIoTDefaultPollPeriodSeconds

\* authenticated by a provisioning that followed a failed attempt
C21_Witness ==
    /\ iothubAuthenticated
    /\ lastOp.op = "tick"
    /\ lastOp.prov = "ok"
    /\ lastOp.before = AzureIoTMinReconnectPeriodSeconds
    /\ azureTimerPeriod = AzureIoTDefaultPollPeriodSeconds

\* authenticated by a connection-status notification
C21_WitnessStatus ==
    /\ iothubAuthenticated
    /\ lastOp.op = "status"
    /\ lastOp.status = "AUTHENTICATED"
    /\ azureIoTPollPeriodSeconds = AzureIoTDefaultPollPeriodSeconds

\* C22: a tick provisions only with the network ready and iothubAuthenticated
\* false; the attempt first destroys the client the handle refers to, if the
\* handle is not NULL; and no state holds more than one client that was
\* created and not destroyed
C22_OneClient ==
    /\ [](liveClients <= 1)
    /\ [][ (lastOp'.op = "tick" /\ lastOp'.setup) =>
             /\ lastOp'.net = "ready"
             /\ ~iothubAuthenticated
             /\ iothubClientHandle # "NULL" =>
                   /\ calls' # << >>
                   /\ calls'[1].fn = "Destroy"
                   /\ calls'[1].handle = iothubClientHandle
             /\ \A i \in 2..Len(calls') : calls'[i].fn # "Destroy" ]_vars

\* a second client has been provisioned after the first was destroyed
C22_Witness ==
    /\ lastOp.op = "tick"
    /\ lastOp.prov = "ok"
    /\ Len(calls) >= 2
    /\ calls[1].fn = "Destroy"
    /\ calls[1].handle = "live"
    /\ iothubClientHandle = "live"
    /\ liveClients = 1

\* C23: every telemetry send, reported-property send and work step handed
\* to the client library is made on a handle that refers to a live client
C23_CallsOnLiveHandle ==
    \A i \in 1..Len(calls) :
        calls[i].fn \in {"SendEventAsync", "SendReportedState", "DoWork"}
            => calls[i].handle = "live"

\* the C23 statement for the reported-property sends and the work step
C23_ReportsAndWorkOnLiveHandle ==
    \A i \in 1..Len(calls) :
        calls[i].fn \in {"SendReportedState", "DoWork"}
            => calls[i].handle = "live"

\* C24: the Heart_rate value a run with v > 0 valid windows sends is the
\* decimal form of the integer nearest to the sum of the v valid heart-rate
\* readings divided by v (where two integers are equally near, either)
C24_HeartRateNearest ==
    [][ (lastOp'.op = "finish" /\ nbr_readings > 0) =>
          LET valid == ValidWindows(windows)
              sum == SumOf(valid, "hr")
              v == Len(valid)
          IN  /\ telemetry' # << >>
              /\ telemetry'[1].key = "Heart_rate"
              /\ \E q \in 0..sum :
                    /\ 2 * q * v - 2 * sum \in (-v)..v
                    /\ telemetry'[1].value = Digits(q) ]_vars

\* C25: a twin callback whose payload holds nprId, with a string of any
\* length or without a string value, ends with the process running and the
\* stored identifier no longer than NprIdCapacity - 1 characters, and each
\* nprId reported-property send it makes carries the stored identifier
C25_NprIdWithinCapacity ==
    [][ ( /\ lastOp'.op = "twin"
          /\ lastOp'.payload.parses
          /\ lastOp'.payload.npr.kind # "absent" )
        => /\ pc' # "crashed"
           /\ Len(nprId') <= NprIdCapacity - 1
           /\ \A i \in 1..Len(calls') :
                 calls'[i].name \in {"nprId", "nprId_property"}
                     => calls'[i].value = nprId' ]_vars

====
